---- MODULE Spec2Model ----
(***************************************************************************)
(* Arithmetic Sequence Generator (src/app.py).                             *)
(*                                                                         *)
(* Real numbers are modelled as integers counting eighths: the model value *)
(* v stands for the float v / Scale.  Multiples of 1/8 of this magnitude   *)
(* are exactly representable as binary floats and their sums and products  *)
(* with small integers are exact, so the integer arithmetic below is the   *)
(* float arithmetic of the program on these inputs.                        *)
(*                                                                         *)
(* Text is modelled structurally: a rendered number is a record            *)
(*   [neg |-> sign printed, int |-> integer part, frac |-> digits after    *)
(*    the decimal point, <<>> when no decimal point is printed].           *)
(***************************************************************************)
EXTENDS Integers, Sequences, FiniteSets, TLC

VARIABLES first_term, common_difference, num_terms, session_state,
          pc, n, sequence, generated,
          sequence_str, table, properties, sequence_text

vars == <<first_term, common_difference, num_terms, session_state,
          pc, n, sequence, generated,
          sequence_str, table, properties, sequence_text>>

(***************************************************************************)
(* Bounds of the model and constants of the program.                       *)
(***************************************************************************)
Scale == 2 * 2 * 2

MaxTerms == 32

min_value == 1

max_value == 1000

inline_max == 20

cols_per_row == 10

download_min == 10

FirstTermInputs == {-11, 8, 40}

DifferenceInputs == {-3, 0, 1, 8}

NumTermsInputs == (min_value..MaxTerms) \cup {max_value - 1, max_value}

GenCountInputs == {-2, -1, 0, 1, 2, 3, max_value, max_value + 1}

(***************************************************************************)
(* Arithmetic and text helpers.                                            *)
(***************************************************************************)
Abs(x) == IF x < 0 THEN -x ELSE x

Min2(x, y) == IF x <= y THEN x ELSE y

Max2(x, y) == IF x >= y THEN x ELSE y

\* int(term): truncation toward zero, as an integer (not in eighths).
int(term) == IF term >= 0 THEN term \div Scale ELSE -((-term) \div Scale)

\* str(int(term)): the integer without a fractional part.
str_int(term) == [neg |-> int(term) < 0, int |-> Abs(int(term)), frac |-> <<>>]

\* f"{term:.2f}": rounded to the nearest hundredth, ties to even (the
\* values are exact binary fractions, so a tie in the model is a tie of
\* the float), always with two digits after the point.
fmt_2f(term) ==
    LET m == Abs(term) * 100
        q == m \div Scale
        r == m % Scale
        h == IF 2 * r > Scale \/ (2 * r = Scale /\ q % 2 = 1) THEN q + 1 ELSE q
    IN  [neg |-> term < 0, int |-> h \div 100,
         frac |-> <<(h \div 10) % 10, h % 10>>]

RECURSIVE strip_zeros(_)
strip_zeros(ds) ==
    IF Len(ds) > 1 /\ ds[Len(ds)] = 0
    THEN strip_zeros(SubSeq(ds, 1, Len(ds) - 1))
    ELSE ds

\* f"{term}" of a float: the shortest decimal that reads back as the float;
\* for an eighth that is its exact expansion, with at least one digit after
\* the point ("2.0", "1.125").
str_float(term) ==
    LET m == Abs(term)
        t == ((m % Scale) * 1000) \div Scale
    IN  [neg |-> term < 0, int |-> m \div Scale,
         frac |-> strip_zeros(<<t \div 100, (t \div 10) % 10, t % 10>>)]

\* math.ceil(a / b) for positive b.
ceil_div(a, b) == IF a % b = 0 THEN a \div b ELSE (a \div b) + 1

\* The built-ins sum, min and max over s[lo..hi].
RECURSIVE sum_range(_, _, _)
sum_range(s, lo, hi) ==
    IF lo > hi THEN 0
    ELSE IF lo = hi THEN s[lo]
    ELSE LET mid == (lo + hi) \div 2
         IN  sum_range(s, lo, mid) + sum_range(s, mid + 1, hi)

RECURSIVE min_range(_, _, _)
min_range(s, lo, hi) ==
    IF lo = hi THEN s[lo]
    ELSE LET mid == (lo + hi) \div 2
         IN  Min2(min_range(s, lo, mid), min_range(s, mid + 1, hi))

RECURSIVE max_range(_, _, _)
max_range(s, lo, hi) ==
    IF lo = hi THEN s[lo]
    ELSE LET mid == (lo + hi) \div 2
         IN  Max2(max_range(s, lo, mid), max_range(s, mid + 1, hi))

sum_skip_first(s) == sum_range(s, 2, Len(s))

sum(s) == sum_range(s, 1, Len(s))

min(s) == min_range(s, 1, Len(s))

max(s) == max_range(s, 1, Len(s))

(***************************************************************************)
(* generate_arithmetic_sequence: the loop over range(num_terms).           *)
(***************************************************************************)
term_one_based(a, d, k) == a + ((k + 1) * d)

term(a, d, k) == a + (k * d)

in_range_short(k, num) == k < num - 1

in_range(k, num) == k < num

LoopStep ==
    /\ pc = "loop"
    /\ in_range(n, num_terms)
    /\ sequence' = Append(sequence, term(first_term, common_difference, n))
    /\ n' = n + 1
    /\ UNCHANGED <<first_term, common_difference, num_terms, session_state,
                   pc, generated, sequence_str, table, properties,
                   sequence_text>>

Return ==
    /\ pc = "loop"
    /\ ~in_range(n, num_terms)
    /\ pc' = "returned"
    /\ UNCHANGED <<first_term, common_difference, num_terms, session_state,
                   n, sequence, generated, sequence_str, table, properties,
                   sequence_text>>

(***************************************************************************)
(* The page: widgets, the Generate button and the example buttons.         *)
(***************************************************************************)
NoProperties ==
    [sequence_sum |-> 0, average |-> <<0, 1>>, min |-> 0, max |-> 0,
     is_increasing |-> ""]

EmptyState == [k \in {} |-> 0]

\* A script run in which the Generate button is not pressed shows no results.
NoResults ==
    /\ generated' = FALSE
    /\ n' = 0
    /\ sequence' = <<>>
    /\ sequence_str' = <<>>
    /\ table' = <<>>
    /\ properties' = NoProperties
    /\ sequence_text' = <<>>

Init ==
    /\ first_term = 8
    /\ common_difference = 8
    /\ num_terms = 10
    /\ session_state = EmptyState
    /\ pc = "idle"
    /\ n = 0
    /\ sequence = <<>>
    /\ generated = FALSE
    /\ sequence_str = <<>>
    /\ table = <<>>
    /\ properties = NoProperties
    /\ sequence_text = <<>>

SetFirstTerm ==
    /\ pc = "idle"
    /\ \E v \in FirstTermInputs : v # first_term /\ first_term' = v
    /\ NoResults
    /\ UNCHANGED <<common_difference, num_terms, session_state, pc>>

SetCommonDifference ==
    /\ pc = "idle"
    /\ \E v \in DifferenceInputs : v # common_difference /\ common_difference' = v
    /\ NoResults
    /\ UNCHANGED <<first_term, num_terms, session_state, pc>>

SetNumTerms ==
    /\ pc = "idle"
    /\ \E v \in NumTermsInputs :
          /\ v # num_terms
          /\ min_value <= v /\ v <= max_value
          /\ num_terms' = v
    /\ NoResults
    /\ UNCHANGED <<first_term, common_difference, session_state, pc>>

\* The Generate button: the script reruns and calls
\* generate_arithmetic_sequence(first_term, common_difference, num_terms).
GenerateButton ==
    /\ pc = "idle"
    /\ pc' = "loop"
    /\ NoResults
    /\ UNCHANGED <<first_term, common_difference, num_terms, session_state>>

format_inline(t) == IF t # int(t) * Scale THEN fmt_2f(t) ELSE str_int(t)

always_2f(t) == fmt_2f(t)

format_table(t) == IF t # int(t) * Scale THEN fmt_2f(t) ELSE str_int(t)

inline_list(seq) == [i \in 1..Len(seq) |-> format_inline(seq[i])]

table_row_short(seq, num, row) ==
    LET start_idx == row * cols_per_row
        end_idx == Min2(start_idx + cols_per_row, num - 1)
        row_data == SubSeq(seq, start_idx + 1, end_idx)
    IN  [i \in 1..Len(row_data) |->
            [term_num |-> start_idx + (i - 1) + 1,
             term |-> row_data[i],
             formatted_term |-> format_table(row_data[i])]]

table_row(seq, num, row) ==
    LET start_idx == row * cols_per_row
        end_idx == Min2(start_idx + cols_per_row, num)
        row_data == SubSeq(seq, start_idx + 1, end_idx)
    IN  [i \in 1..Len(row_data) |->
            [term_num |-> start_idx + (i - 1) + 1,
             term |-> row_data[i],
             formatted_term |-> format_table(row_data[i])]]

table_rows(seq, num) ==
    LET rows_needed == ceil_div(num, cols_per_row)
    IN  [r \in 1..rows_needed |-> table_row(seq, num, r - 1)]

non_negative_is_yes(d) == IF d >= 0 THEN "Yes" ELSE "No"

is_increasing(d) == IF d > 0 THEN "Yes" ELSE IF d < 0 THEN "No" ELSE "Constant"

sequence_properties(seq, num, d) ==
    LET sequence_sum == sum(seq)
    IN  [sequence_sum |-> sequence_sum,
         average |-> <<sequence_sum, num>>,
         min |-> min(seq),
         max |-> max(seq),
         is_increasing |-> is_increasing(d)]

export_display_form(seq) ==
    [i \in 1..Len(seq) |-> [position |-> (i - 1) + 1, value |-> format_inline(seq[i])]]

export_text(seq) ==
    [i \in 1..Len(seq) |-> [position |-> (i - 1) + 1, value |-> str_float(seq[i])]]

\* The rest of the Generate branch, after the call has returned.
Render ==
    /\ pc = "returned"
    /\ pc' = "idle"
    /\ generated' = TRUE
    /\ IF num_terms <= inline_max
       THEN sequence_str' = inline_list(sequence) /\ table' = <<>>
       ELSE sequence_str' = <<>> /\ table' = table_rows(sequence, num_terms)
    /\ properties' = sequence_properties(sequence, num_terms, common_difference)
    /\ IF num_terms > download_min
       THEN sequence_text' = export_text(sequence)
       ELSE sequence_text' = <<>>
    /\ UNCHANGED <<first_term, common_difference, num_terms, session_state,
                   n, sequence>>

Presets ==
    [EvenNumbers |-> [first_term |-> 2 * Scale, common_difference |-> 2 * Scale,
                      num_terms |-> 10],
     CountingBy5s |-> [first_term |-> 5 * Scale, common_difference |-> 5 * Scale,
                       num_terms |-> 10],
     DecreasingSequence |-> [first_term |-> 100 * Scale,
                             common_difference |-> (-7) * Scale,
                             num_terms |-> 15]]

\* st.session_state.update(d)
update(state, d) ==
    [k \in DOMAIN state \cup DOMAIN d |-> IF k \in DOMAIN d THEN d[k] ELSE state[k]]

\* An example button: the run that sees the press shows no results, updates
\* the session state and reruns.  The three number inputs are created
\* without a key, so no entry of the session state is bound to them and they
\* keep their values over the rerun.
ExampleButton(name) ==
    /\ pc = "idle"
    /\ session_state' = update(session_state, Presets[name])
    /\ NoResults
    /\ UNCHANGED <<first_term, common_difference, num_terms, pc>>

EvenNumbersButton == ExampleButton("EvenNumbers")

CountingBy5sButton == ExampleButton("CountingBy5s")

DecreasingSequenceButton == ExampleButton("DecreasingSequence")

Next ==
    \/ SetFirstTerm
    \/ SetCommonDifference
    \/ SetNumTerms
    \/ GenerateButton
    \/ LoopStep
    \/ Return
    \/ Render
    \/ EvenNumbersButton
    \/ CountingBy5sButton
    \/ DecreasingSequenceButton

Spec == Init /\ [][Next]_vars

(***************************************************************************)
(* generate_arithmetic_sequence as a function of its three arguments,      *)
(* called directly with arguments inside and outside 1..1000.              *)
(***************************************************************************)
InitGen ==
    /\ first_term \in FirstTermInputs
    /\ common_difference \in DifferenceInputs
    /\ num_terms \in GenCountInputs
    /\ session_state = EmptyState
    /\ pc = "loop"
    /\ n = 0
    /\ sequence = <<>>
    /\ generated = FALSE
    /\ sequence_str = <<>>
    /\ table = <<>>
    /\ properties = NoProperties
    /\ sequence_text = <<>>

NextGen ==
    \/ LoopStep
    \/ Return

SpecGen == InitGen /\ [][NextGen]_vars

(***************************************************************************)
(* Properties.                                                             *)
(***************************************************************************)
ValidCount == min_value <= num_terms /\ num_terms <= max_value

\* C1: for 1 <= num_terms <= 1000 the returned sequence has, at every
\* 0-based index i in [0, num_terms), the element first_term + i * d; its
\* first element is first_term and its last first_term + (num_terms - 1) * d.
C1_TermFormula ==
    (pc = "returned" /\ ValidCount) =>
        /\ \A i \in 0..(num_terms - 1) :
              /\ i + 1 \in DOMAIN sequence
              /\ sequence[i + 1] = first_term + i * common_difference
        /\ sequence[1] = first_term
        /\ sequence[Len(sequence)] = first_term + (num_terms - 1) * common_difference

C1_Witness ==
    /\ pc = "returned"
    /\ num_terms = 3
    /\ common_difference = -3
    /\ sequence = <<first_term, first_term - 3, first_term - 6>>

\* C2: for 1 <= num_terms <= 1000 the loop appends one element per
\* iteration, never runs more than num_terms iterations, and the function
\* returns after exactly num_terms iterations with num_terms elements.
C2_ExactLength ==
    ValidCount =>
        /\ pc = "loop" => (Len(sequence) = n /\ n <= num_terms)
        /\ pc = "returned" => (Len(sequence) = num_terms /\ n = num_terms)

C2_Witness ==
    /\ pc = "returned"
    /\ num_terms = max_value
    /\ Len(sequence) = max_value

\* C3: called with a term count of 0 or below, the function fails: it never
\* returns a sequence.
C3_FailsBelowOne == num_terms < min_value => pc # "returned"

\* C4: called with a term count above 1000, the function fails: it never
\* returns, and no sequence ever grows beyond 1000 elements.
C4_FailsAboveMax ==
    /\ num_terms > max_value => pc # "returned"
    /\ Len(sequence) <= max_value

\* C5: the trend shown is "Yes" (increasing) iff d > 0, "No" (decreasing)
\* iff d < 0 and "Constant" iff d = 0, whatever the first term, the term
\* count and the generated values are.
C5_TrendFromSign ==
    generated =>
        /\ properties.is_increasing = "Yes" <=> common_difference > 0
        /\ properties.is_increasing = "No" <=> common_difference < 0
        /\ properties.is_increasing = "Constant" <=> common_difference = 0

C5_Witness ==
    /\ generated
    /\ num_terms = 1
    /\ common_difference < 0
    /\ properties.is_increasing = "No"

\* C6: the sum shown is the sum of the num_terms generated elements and the
\* average is that sum divided by num_terms, which is the closed form
\* first_term + ((num_terms - 1) / 2) * d:
\* 2 * sum = num_terms * (2 * first_term + (num_terms - 1) * d).
C6_SumAndAverage ==
    generated =>
        /\ 2 * properties.sequence_sum
              = num_terms * (2 * first_term + (num_terms - 1) * common_difference)
        /\ properties.average = <<properties.sequence_sum, num_terms>>
        /\ 2 * properties.average[1]
              = properties.average[2]
                   * (2 * first_term + (num_terms - 1) * common_difference)

C6_Witness ==
    /\ generated
    /\ first_term = 1 * Scale
    /\ common_difference = 1 * Scale
    /\ num_terms = 10
    /\ properties.sequence_sum = 55 * Scale
    /\ properties.average = <<55 * Scale, 10>>

\* The formatting rule: a value that is an integer is rendered as that
\* integer with no fractional part, any other value with exactly two
\* decimal digits, being the value rounded to the nearest hundredth.
FormatRule(v, s) ==
    IF v % Scale = 0
    THEN s = [neg |-> v < 0, int |-> Abs(v) \div Scale, frac |-> <<>>]
    ELSE /\ s.neg = (v < 0)
         /\ Len(s.frac) = 2
         /\ \A k \in 1..2 : s.frac[k] \in 0..9
         /\ LET h == s.int * 100 + s.frac[1] * 10 + s.frac[2]
                e == Abs(h * Scale - Abs(v) * 100)
            IN  /\ 2 * e <= Scale
                /\ 2 * e = Scale => h % 2 = 0

\* C7: the inline list (num_terms <= 20) and the labelled table
\* (num_terms > 20) render every term by the one formatting rule, so a value
\* gets the same rendering in both.
C7_OneFormatRule ==
    generated =>
        /\ Len(sequence_str) = (IF num_terms <= inline_max THEN num_terms ELSE 0)
        /\ \A i \in DOMAIN sequence_str : FormatRule(sequence[i], sequence_str[i])
        /\ \A r \in DOMAIN table : \A c \in DOMAIN table[r] :
              FormatRule(table[r][c].term, table[r][c].formatted_term)

C7_Witness ==
    /\ generated
    /\ num_terms > inline_max
    /\ \E c \in DOMAIN table[1] : table[1][c].formatted_term.frac = <<>>
    /\ \E c \in DOMAIN table[1] : Len(table[1][c].formatted_term.frac) = 2

RECURSIVE DigitsValue(_)
DigitsValue(ds) ==
    IF ds = <<>> THEN 0
    ELSE 10 * DigitsValue(SubSeq(ds, 1, Len(ds) - 1)) + ds[Len(ds)]

RECURSIVE Pow10(_)
Pow10(k) == IF k = 0 THEN 1 ELSE 10 * Pow10(k - 1)

\* s is the raw text of the float v: a decimal point is always printed and
\* the digits denote v exactly.
RawText(v, s) ==
    /\ s.neg = (v < 0)
    /\ Len(s.frac) >= 1
    /\ (s.int * Pow10(Len(s.frac)) + DigitsValue(s.frac)) * Scale
          = Abs(v) * Pow10(Len(s.frac))

\* C8: the text export has one line per generated term, in order; line k is
\* "Term k: <value>" with the raw k-th element, not its display form.
C8_ExportLines ==
    (generated /\ num_terms > download_min) =>
        /\ Len(sequence_text) = num_terms
        /\ \A k \in 1..num_terms :
              /\ sequence_text[k].position = k
              /\ RawText(sequence[k], sequence_text[k].value)

C8_Witness ==
    /\ generated
    /\ num_terms = download_min + 1
    /\ Len(sequence_text) = num_terms
    /\ sequence_text[1].value = [neg |-> FALSE, int |-> 1, frac |-> <<0>>]
    /\ sequence_text[2].value = [neg |-> FALSE, int |-> 1, frac |-> <<1, 2, 5>>]

\* C9: for num_terms > 20 the table is a partition of the sequence into
\* consecutive non-empty rows of at most 10 terms, only the last of which
\* may be shorter; the term at 0-based index j appears once, in order, with
\* the label j + 1.
C9_TablePartition ==
    (generated /\ num_terms > inline_max) =>
        /\ Len(table) >= 1
        /\ \A r \in 1..Len(table) :
              /\ Len(table[r]) >= 1
              /\ Len(table[r]) <= cols_per_row
              /\ r < Len(table) => Len(table[r]) = cols_per_row
              /\ \A c \in 1..Len(table[r]) :
                    /\ table[r][c].term_num = (r - 1) * cols_per_row + c
                    /\ table[r][c].term_num <= num_terms
                    /\ table[r][c].term = sequence[table[r][c].term_num]
        /\ (Len(table) - 1) * cols_per_row + Len(table[Len(table)]) = num_terms

C9_Witness ==
    /\ generated
    /\ num_terms = max_value - 1
    /\ Len(table) = 100
    /\ Len(table[100]) = 9
    /\ table[100][9].term_num = max_value - 1

\* C10: pressing an example button leaves the three input parameters at the
\* values of its preset.
C10_PresetApplied ==
    [][\A name \in DOMAIN Presets :
          ExampleButton(name) =>
              /\ first_term' = Presets[name].first_term
              /\ common_difference' = Presets[name].common_difference
              /\ num_terms' = Presets[name].num_terms]_vars

====
